---- MODULE Spec2Model ----
(***************************************************************************)
(* Rate-limit / backoff coordinator of linkedin_scraper                    *)
(* (src/linkedin_scraper/core/rate_limit.py).                              *)
(*                                                                         *)
(* Time is a natural number of clock ticks; a calendar day is DayLen       *)
(* consecutive ticks, so date.today() at time t is t \div DayLen and the   *)
(* last instant of that day (23:59:59) is the tick before the next day.    *)
(* The persisted state file is one variable, `file`; every operation       *)
(* loads it, computes, and (for the two record operations) writes the      *)
(* whole record back.                                                      *)
(***************************************************************************)
EXTENDS Integers, Sequences, FiniteSets, TLC

VARIABLES
    now,      \* the wall clock, time.time()
    file,     \* content of RATE_LIMIT_STATE_FILE
    pc,       \* position of the caller inside wait_if_needed_before_profile
    w,        \* locals of the running wait_if_needed_before_profile call
    ret,      \* the last completed call and what it returned
    started,  \* history: record_profile_started calls made on the current day
    signals,  \* history: record_rate_limit_error calls made on the current day
    other     \* locals of a second process that runs against the same file

vars == <<now, file, pc, w, ret, started, signals, other>>

-----------------------------------------------------------------------------
(* Bounds of the model *)

DayLen == 3          \* ticks per calendar day
MaxTime == 5         \* the clock stops here, in the second day
MaxSignals == 3      \* record_rate_limit_error runs while rate_limit_count is below this
MaxProfiles == 3     \* in Spec, record_profile_started runs while profiles_today is below this
MaxDelay == 2        \* largest min_delay_sec a caller passes
CapSlack == 2        \* SpecCap records up to MAX_PROFILES_PER_DAY + CapSlack starts

StartTime == 1       \* the clock starts here, in the first day

(* Program constants *)
MAX_PROFILES_PER_DAY == 100

(* Inputs *)
SessionPaths == {"None", "a", "./a"}
MinDelays == 0..MaxDelay
SuggestedWaits == {1, DayLen}

-----------------------------------------------------------------------------
(* Python values *)

None == 0 - 1        \* an absent key / None, for numbers and dates
NoMode == "None"     \* an absent degradation_mode

\* {}: the dict with no keys
EmptyDict ==
    [last_profile_at |-> None, date_today |-> None, profiles_today |-> None,
     rate_limit_count_today |-> None, rate_limit_count |-> None,
     last_rate_limit_at |-> None, backoff_until |-> None,
     degradation_mode |-> NoMode]

\* state.get(k, default) for a numeric key
Get(v, default) == IF v = None THEN default ELSE v

\* state.get(k) or 0
OrZero(v) == IF v = None THEN 0 ELSE v

\* state.get("degradation_mode", "normal")
GetMode(m) == IF m = NoMode THEN "normal" ELSE m

Max(a, b) == IF a >= b THEN a ELSE b

\* date.today() at time t (isoformat() is one-to-one on dates)
Today(t) == t \div DayLen

\* end_of_today_epoch giving 00:00:00 of the day
start_of_today_epoch(t) == Today(t) * DayLen

\* _end_of_today_epoch(): 23:59:59 of the day of time t
end_of_today_epoch(t) == Today(t) * DayLen + (DayLen - 1)

\* _account_key(session_path)
account_key(session_path) ==
    CASE session_path = "None" -> "default"
      [] session_path = "a"    -> "/cwd/a"
      [] session_path = "./a"  -> "/cwd/a"

\* _load_state(): {} when the file is missing or does not parse, else the
\* parsed JSON value, which is a dict or (here) a list
load_state(f) ==
    IF f.kind = "missing" THEN [type |-> "dict", d |-> EmptyDict]
    ELSE IF f.kind = "unparseable" THEN [type |-> "dict", d |-> EmptyDict]
    ELSE IF f.kind = "array" THEN [type |-> "list", d |-> EmptyDict]
    ELSE [type |-> "dict", d |-> f.data]

\* _save_state(state): the file now holds json.dump(state)
save_state(state) == [kind |-> "object", data |-> state]

\* _save_state(state) when the write fails, lines 41-46: the exception is
\* logged and swallowed. how = "open": mkdir or open() failed and the file is
\* as it was; how = "write": open(..., "w") has truncated the file and
\* json.dump or the closing flush failed, leaving text that does not parse.
save_state_failed(f, how) ==
    IF how = "open" THEN f ELSE [kind |-> "unparseable", data |-> EmptyDict]

SaveFailures == {"open", "write"}

-----------------------------------------------------------------------------
(* The record operations, as functions from the loaded dict to the saved one *)

\* profile_started_state resetting the daily fields on every call
profile_started_state_reset(state, t) ==
    LET s1 == [state EXCEPT !.last_profile_at = t,
                            !.date_today = Today(t),
                            !.rate_limit_count_today = 0,
                            !.degradation_mode = "normal"]
    IN  [s1 EXCEPT !.profiles_today = Get(s1.profiles_today, 0) + 1]

\* profile_started_state whose rollover also clears the backoff
profile_started_state_clearing(state, t) ==
    LET s1 == [state EXCEPT !.last_profile_at = t]
        s2 == IF s1.date_today # Today(t)
              THEN [s1 EXCEPT !.date_today = Today(t),
                              !.profiles_today = 0,
                              !.rate_limit_count_today = 0,
                              !.degradation_mode = "normal",
                              !.backoff_until = 0]
              ELSE s1
    IN  [s2 EXCEPT !.profiles_today = Get(s2.profiles_today, 0) + 1]

\* profile_started_state whose rollover leaves degradation_mode as it was
profile_started_state_keeping_mode(state, t) ==
    LET s1 == [state EXCEPT !.last_profile_at = t]
        s2 == IF s1.date_today # Today(t)
              THEN [s1 EXCEPT !.date_today = Today(t),
                              !.profiles_today = 0,
                              !.rate_limit_count_today = 0]
              ELSE s1
    IN  [s2 EXCEPT !.profiles_today = Get(s2.profiles_today, 0) + 1]

\* record_profile_started, lines 98-106: state after the update, at time t
profile_started_state(state, t) ==
    LET s1 == [state EXCEPT !.last_profile_at = t]
        s2 == IF s1.date_today # Today(t)
              THEN [s1 EXCEPT !.date_today = Today(t),
                              !.profiles_today = 0,
                              !.rate_limit_count_today = 0,
                              !.degradation_mode = "normal"]
              ELSE s1
    IN  [s2 EXCEPT !.profiles_today = Get(s2.profiles_today, 0) + 1]

\* record_rate_limit_error, lines 129-137: rollover and counters
rate_limit_counted(state, t) ==
    LET s1 == IF state.date_today # Today(t)
              THEN [state EXCEPT !.date_today = Today(t),
                                 !.rate_limit_count_today = 0,
                                 !.degradation_mode = "normal"]
              ELSE state
    IN  [s1 EXCEPT !.rate_limit_count_today = Get(s1.rate_limit_count_today, 0) + 1,
                   !.rate_limit_count = Get(s1.rate_limit_count, 0) + 1,
                   !.last_rate_limit_at = t]

\* rate_limit_branch stopping only from the third signal of the day
rate_limit_branch_late(s, t, suggested_wait_time) ==
    IF s.rate_limit_count_today <= 2
    THEN [s EXCEPT !.degradation_mode = "reduced",
                   !.backoff_until = t + suggested_wait_time]
    ELSE [s EXCEPT !.degradation_mode = "stopped",
                   !.backoff_until = end_of_today_epoch(t)]

\* record_rate_limit_error, lines 139-152: the branch on count_today
rate_limit_branch(s, t, suggested_wait_time) ==
    IF s.rate_limit_count_today = 1
    THEN [s EXCEPT !.degradation_mode = "reduced",
                   !.backoff_until = t + suggested_wait_time]
    ELSE [s EXCEPT !.degradation_mode = "stopped",
                   !.backoff_until = end_of_today_epoch(t)]

\* record_rate_limit_error: state after the update, at time t
rate_limit_state(state, t, suggested_wait_time) ==
    rate_limit_branch(rate_limit_counted(state, t), t, suggested_wait_time)

-----------------------------------------------------------------------------
(* The getters, as functions of the loaded dict and the time of the call *)

\* get_backoff_remaining_sec
backoff_remaining_sec(state, t) ==
    LET backoff_until == OrZero(state.backoff_until)
    IN  IF backoff_until <= 0 THEN 0 ELSE Max(0, backoff_until - t)

\* is_in_backoff
in_backoff(state, t) == backoff_remaining_sec(state, t) > 0

\* profiles_scraped_today without the check of date_today
profiles_scraped_any_day(state, t) == Get(state.profiles_today, 0)

\* get_profiles_scraped_today
profiles_scraped_today(state, t) ==
    IF state.date_today # Today(t) THEN 0 ELSE Get(state.profiles_today, 0)

\* exceed_daily_cap true only past the cap
exceed_daily_cap_strict(state, t) ==
    profiles_scraped_today(state, t) > MAX_PROFILES_PER_DAY

\* would_exceed_daily_cap
exceed_daily_cap(state, t) ==
    profiles_scraped_today(state, t) >= MAX_PROFILES_PER_DAY

\* get_daily_cap_remaining
daily_cap_remaining(state, t) ==
    Max(0, MAX_PROFILES_PER_DAY - profiles_scraped_today(state, t))

\* get_degradation_mode
degradation_mode(state, t) ==
    IF state.date_today # Today(t) THEN "normal" ELSE GetMode(state.degradation_mode)

\* get_rate_limit_metrics
rate_limit_metrics(state, t) ==
    IF state.date_today # Today(t)
    THEN [profiles_today |-> 0, rate_limit_count_today |-> 0,
          degradation_mode |-> "normal"]
    ELSE [profiles_today |-> Get(state.profiles_today, 0),
          rate_limit_count_today |-> Get(state.rate_limit_count_today, 0),
          degradation_mode |-> GetMode(state.degradation_mode)]

\* the value a getter returns
getter_value(op, state, t) ==
    CASE op = "get_backoff_remaining_sec"  -> backoff_remaining_sec(state, t)
      [] op = "is_in_backoff"              -> in_backoff(state, t)
      [] op = "get_profiles_scraped_today" -> profiles_scraped_today(state, t)
      [] op = "would_exceed_daily_cap"     -> exceed_daily_cap(state, t)
      [] op = "get_daily_cap_remaining"    -> daily_cap_remaining(state, t)
      [] op = "get_degradation_mode"       -> degradation_mode(state, t)
      [] op = "get_rate_limit_metrics"     -> rate_limit_metrics(state, t)

Getters ==
    {"get_backoff_remaining_sec", "is_in_backoff", "get_profiles_scraped_today",
     "would_exceed_daily_cap", "get_daily_cap_remaining", "get_degradation_mode",
     "get_rate_limit_metrics"}

CapGetters ==
    {"get_profiles_scraped_today", "would_exceed_daily_cap", "get_daily_cap_remaining"}

-----------------------------------------------------------------------------
(* wait_if_needed_before_profile *)

\* backoff_due still true at the instant backoff_until
backoff_due_inclusive(state, t) ==
    LET backoff_until == OrZero(state.backoff_until)
    IN  backoff_until # 0 /\ t <= backoff_until

\* lines 69-70 and 80-81: is a backoff suspension due, at time t
backoff_due(state, t) ==
    LET backoff_until == OrZero(state.backoff_until)
    IN  backoff_until # 0 /\ t < backoff_until

\* lines 84-88: is a throttle suspension due; t is the `now` of line 67
throttle_due(state, t, min_delay_sec) ==
    LET last_at == OrZero(state.last_profile_at)
    IN  last_at # 0 /\ t - last_at < min_delay_sec

\* throttle_sleep_sec from the time since the last profile, not the time left
throttle_sleep_elapsed(state, t, min_delay_sec) ==
    t - OrZero(state.last_profile_at)

\* line 88: sleep_sec
throttle_sleep_sec(state, t, min_delay_sec) ==
    min_delay_sec - (t - OrZero(state.last_profile_at))

Idle == [key |-> "", state |-> EmptyDict, now |-> 0, min_delay_sec |-> 0, wake |-> 0]

\* the second process between two calls
OtherIdle == [pc |-> "idle", state |-> EmptyDict, now |-> 0, suggested_wait_time |-> 0]

Returned(op, key, val) == [op |-> op, key |-> key, status |-> "ok", val |-> val]
Raised(op, key) == [op |-> op, key |-> key, status |-> "raised", val |-> 0]

\* a record operation that returned although _save_state failed
Unsaved(op, key) == [op |-> op, key |-> key, status |-> "unsaved", val |-> 0]

\* the wait ended by CancelledError
Cancelled(op, key) == [op |-> op, key |-> key, status |-> "cancelled", val |-> 0]

\* lines 84-92: from the throttle check to the return, with locals l
Throttle(l) ==
    IF throttle_due(l.state, l.now, l.min_delay_sec)
    THEN /\ pc' = "throttle"
         /\ w' = [l EXCEPT !.wake = now + throttle_sleep_sec(l.state, l.now, l.min_delay_sec)]
         /\ UNCHANGED ret
    ELSE /\ pc' = "idle"
         /\ w' = Idle
         /\ ret' = Returned("wait_if_needed_before_profile", l.key,
                            [at |-> now, min_delay_sec |-> l.min_delay_sec])

\* lines 65-77: the call, up to its first suspension or its return
WaitBegin(session_path, min_delay_sec) ==
    /\ LET loaded == load_state(file)
           l == [key |-> account_key(session_path), state |-> loaded.d, now |-> now,
                 min_delay_sec |-> min_delay_sec, wake |-> 0]
       IN  IF loaded.type # "dict"
           THEN /\ ret' = Raised("wait_if_needed_before_profile", l.key)
                /\ UNCHANGED <<pc, w>>
           ELSE IF backoff_due(l.state, l.now)
           THEN /\ pc' = "backoff"
                /\ w' = [l EXCEPT !.wake = now + (l.state.backoff_until - l.now)]
                /\ UNCHANGED ret
           ELSE Throttle(l)
    /\ UNCHANGED <<now, file, started, signals, other>>

\* WaitReload without the second look at backoff_until
WaitReloadNoCheck ==
    /\ pc = "backoff"
    /\ now >= w.wake
    /\ Throttle([w EXCEPT !.state = load_state(file).d])
    /\ UNCHANGED <<now, file, started, signals, other>>

\* lines 78-82: resuming from the first backoff sleep, reloading the state
WaitReload ==
    /\ pc = "backoff"
    /\ now >= w.wake
    /\ LET loaded == load_state(file)
           l == [w EXCEPT !.state = loaded.d]
       IN  IF loaded.type # "dict"
           THEN /\ ret' = Raised("wait_if_needed_before_profile", w.key)
                /\ pc' = "idle"
                /\ w' = Idle
           ELSE IF backoff_due(l.state, now)
           THEN /\ pc' = "backoff_again"
                /\ w' = [l EXCEPT !.wake = now + (l.state.backoff_until - now)]
                /\ UNCHANGED ret
           ELSE Throttle(l)
    /\ UNCHANGED <<now, file, started, signals, other>>

\* WaitResume looking at backoff_until again, as a loop would
WaitResumeLooping ==
    /\ pc = "backoff_again"
    /\ now >= w.wake
    /\ LET l == [w EXCEPT !.state = load_state(file).d]
       IN  IF backoff_due(l.state, now)
           THEN /\ pc' = "backoff_again"
                /\ w' = [l EXCEPT !.wake = now + (l.state.backoff_until - now)]
                /\ UNCHANGED ret
           ELSE Throttle(l)
    /\ UNCHANGED <<now, file, started, signals, other>>

\* line 82: resuming from the second backoff sleep
WaitResume ==
    /\ pc = "backoff_again"
    /\ now >= w.wake
    /\ Throttle(w)
    /\ UNCHANGED <<now, file, started, signals, other>>

\* line 90: resuming from the throttle sleep
WaitReturn ==
    /\ pc = "throttle"
    /\ now >= w.wake
    /\ pc' = "idle"
    /\ w' = Idle
    /\ ret' = Returned("wait_if_needed_before_profile", w.key,
                       [at |-> now, min_delay_sec |-> w.min_delay_sec])
    /\ UNCHANGED <<now, file, started, signals, other>>

\* lines 77, 82, 90: the task is cancelled while it sleeps; asyncio.sleep
\* raises CancelledError, which nothing in the function catches
WaitCancelled ==
    /\ pc \in {"backoff", "backoff_again", "throttle"}
    /\ pc' = "idle"
    /\ w' = Idle
    /\ ret' = Cancelled("wait_if_needed_before_profile", w.key)
    /\ UNCHANGED <<now, file, started, signals, other>>

-----------------------------------------------------------------------------
(* The other operations *)

\* record_profile_started; limit bounds the stored counter
RecordProfileStarted(session_path, limit) ==
    /\ LET loaded == load_state(file)
       IN  /\ Get(loaded.d.profiles_today, 0) < limit
           /\ IF loaded.type # "dict"
              THEN /\ ret' = Raised("record_profile_started", account_key(session_path))
                   /\ UNCHANGED <<file, started>>
              ELSE /\ file' = save_state(profile_started_state(loaded.d, now))
                   /\ started' = started + 1
                   /\ ret' = Returned("record_profile_started",
                                      account_key(session_path), 0)
    /\ UNCHANGED <<now, pc, w, signals, other>>

\* record_rate_limit_error
RecordRateLimitError(suggested_wait_time, session_path) ==
    /\ LET loaded == load_state(file)
       IN  /\ Get(loaded.d.rate_limit_count, 0) < MaxSignals
           /\ IF loaded.type # "dict"
              THEN /\ ret' = Raised("record_rate_limit_error", account_key(session_path))
                   /\ UNCHANGED <<file, signals>>
              ELSE /\ file' = save_state(rate_limit_state(loaded.d, now, suggested_wait_time))
                   /\ signals' = signals + 1
                   /\ ret' = Returned("record_rate_limit_error",
                                      account_key(session_path), suggested_wait_time)
    /\ UNCHANGED <<now, pc, w, started, other>>

\* record_profile_started when _save_state fails
RecordProfileStartedUnsaved(session_path, how) ==
    /\ load_state(file).type = "dict"
    /\ started < MaxProfiles
    /\ file' = save_state_failed(file, how)
    /\ started' = started + 1
    /\ ret' = Unsaved("record_profile_started", account_key(session_path))
    /\ UNCHANGED <<now, pc, w, signals, other>>

\* record_rate_limit_error when _save_state fails
RecordRateLimitErrorUnsaved(suggested_wait_time, session_path, how) ==
    /\ load_state(file).type = "dict"
    /\ signals < MaxSignals
    /\ file' = save_state_failed(file, how)
    /\ signals' = signals + 1
    /\ ret' = Unsaved("record_rate_limit_error", account_key(session_path))
    /\ UNCHANGED <<now, pc, w, started, other>>

\* a getter that writes the rolled-over record back
GetterSavingRollover(op, session_path) ==
    /\ LET loaded == load_state(file)
           rolled == IF loaded.d.date_today # Today(now)
                     THEN [loaded.d EXCEPT !.date_today = Today(now),
                                           !.profiles_today = 0,
                                           !.rate_limit_count_today = 0,
                                           !.degradation_mode = "normal"]
                     ELSE loaded.d
       IN  /\ ret' = Returned(op, account_key(session_path),
                              getter_value(op, loaded.d, now))
           /\ file' = save_state(rolled)
    /\ UNCHANGED <<now, pc, w, started, signals, other>>

\* the seven getters
Getter(op, session_path) ==
    /\ LET loaded == load_state(file)
       IN  IF loaded.type # "dict"
           THEN ret' = Raised(op, account_key(session_path))
           ELSE ret' = Returned(op, account_key(session_path),
                                getter_value(op, loaded.d, now))
    /\ UNCHANGED <<now, file, pc, w, started, signals, other>>

\* the clock advances
Tick ==
    /\ now < MaxTime
    /\ now' = now + 1
    /\ started' = IF Today(now + 1) # Today(now) THEN 0 ELSE started
    /\ signals' = IF Today(now + 1) # Today(now) THEN 0 ELSE signals
    /\ UNCHANGED <<file, pc, w, ret, other>>

\* the clock runs on past MaxTime for as long as the wait is asleep
ClockRunsOn ==
    /\ now >= MaxTime
    /\ pc # "idle"
    /\ now < w.wake
    /\ now' = now + 1
    /\ started' = IF Today(now + 1) # Today(now) THEN 0 ELSE started
    /\ signals' = IF Today(now + 1) # Today(now) THEN 0 ELSE signals
    /\ UNCHANGED <<file, pc, w, ret, other>>

-----------------------------------------------------------------------------
(* Specifications *)

NoCall == [op |-> "", key |-> "", status |-> "ok", val |-> 0]

Init ==
    /\ now = StartTime
    /\ file = [kind |-> "missing", data |-> EmptyDict]
    /\ pc = "idle"
    /\ w = Idle
    /\ ret = NoCall
    /\ started = 0
    /\ signals = 0
    /\ other = OtherIdle

\* One caller: a call begins when the previous one has returned. With no
\* other writer the reload of line 79 finds the backoff it slept through
\* (NoSecondSleep), so the second backoff sleep is no step of this
\* specification.
Next ==
    \/ Tick
    \/ pc = "idle" /\ \E sp \in SessionPaths, d \in MinDelays : WaitBegin(sp, d)
    \/ WaitReload
    \/ WaitReturn
    \/ pc = "idle" /\ \E sp \in SessionPaths : RecordProfileStarted(sp, MaxProfiles)
    \/ pc = "idle" /\ \E sp \in SessionPaths, s \in SuggestedWaits :
                          RecordRateLimitError(s, sp)
    \/ pc = "idle" /\ \E sp \in SessionPaths, op \in Getters : Getter(op, sp)

Spec == Init /\ [][Next]_vars

\* One caller within one calendar day, recording profile starts up to and
\* past the daily cap.
NextCap ==
    \/ Today(now + 1) = Today(now) /\ Tick
    \/ \E sp \in SessionPaths :
           RecordProfileStarted(sp, MAX_PROFILES_PER_DAY + CapSlack)
    \/ \E sp \in SessionPaths, op \in CapGetters : Getter(op, sp)

SpecCap == Init /\ [][NextCap]_vars

\* One caller, starting on whatever the state file holds when the process
\* starts: nothing, text that does not parse, or JSON that is not an object.
InitAnyFile ==
    /\ now = StartTime
    /\ file \in {[kind |-> k, data |-> EmptyDict] : k \in {"missing", "unparseable", "array"}}
    /\ pc = "idle"
    /\ w = Idle
    /\ ret = NoCall
    /\ started = 0
    /\ signals = 0
    /\ other = OtherIdle

SpecAnyFile == InitAnyFile /\ [][Next]_vars

\* One caller, passing the default session, whose writes of the state file
\* may fail.
NextUnsaved ==
    \/ Tick
    \/ RecordProfileStarted("None", MaxProfiles)
    \/ \E s \in SuggestedWaits : RecordRateLimitError(s, "None")
    \/ \E op \in {"is_in_backoff", "get_rate_limit_metrics"} : Getter(op, "None")
    \/ \E how \in SaveFailures : RecordProfileStartedUnsaved("None", how)
    \/ \E s \in SuggestedWaits, how \in SaveFailures :
           RecordRateLimitErrorUnsaved(s, "None", how)

SpecUnsaved == Init /\ [][NextUnsaved]_vars

\* One caller whose wait may be cancelled while it sleeps.
NextCancel ==
    \/ Next
    \/ WaitCancelled

SpecCancel == Init /\ [][NextCancel]_vars

\* One caller of wait_if_needed_before_profile, passing MaxDelay, and other
\* processes that record profile starts and rate-limit signals against the
\* same file at any moment up to MaxTime, also while the caller sleeps. Time
\* advances, and the event loop resumes a task whose sleep is over.
NextConc ==
    \/ Tick
    \/ ClockRunsOn
    \/ pc = "idle" /\ WaitBegin("None", MaxDelay)
    \/ WaitReload
    \/ WaitResume
    \/ WaitReturn
    \/ now <= MaxTime /\ RecordProfileStarted("a", MaxProfiles)
    \/ now <= MaxTime /\ \E s \in SuggestedWaits : RecordRateLimitError(s, "a")

SpecConc ==
    /\ Init
    /\ [][NextConc]_vars
    /\ WF_vars(Tick)
    /\ WF_vars(ClockRunsOn)
    /\ WF_vars(WaitReload)
    /\ WF_vars(WaitResume)
    /\ WF_vars(WaitReturn)

NoSecondSleep == pc # "backoff_again"

-----------------------------------------------------------------------------
(* Two processes sharing the state file, with no lock *)

\* The processes. Each follows the caller protocol: wait, would_exceed_daily_cap,
\* record_profile_started; and records a rate-limit signal between two profiles.
Procs == {1, 2}

\* wait_if_needed_before_profile of process p, returning: no backoff is due
OtherWait(p) ==
    /\ other[p].pc = "idle"
    /\ load_state(file).type = "dict"
    /\ ~backoff_due(load_state(file).d, now)
    /\ other' = [other EXCEPT ![p].pc = "waited"]
    /\ UNCHANGED <<now, file, pc, w, ret, started, signals>>

\* would_exceed_daily_cap of process p: it goes on when the answer is False
OtherCheckCap(p) ==
    /\ other[p].pc = "waited"
    /\ other' = [other EXCEPT ![p].pc =
                     IF exceed_daily_cap(load_state(file).d, now) THEN "idle" ELSE "checked"]
    /\ UNCHANGED <<now, file, pc, w, ret, started, signals>>

\* record_profile_started of process p, lines 97-98: the load and the clock
OtherProfileLoad(p) ==
    /\ other[p].pc = "checked"
    /\ started < MaxProfiles
    /\ other' = [other EXCEPT ![p] = [pc |-> "profile_loaded",
                                      state |-> load_state(file).d,
                                      now |-> now,
                                      suggested_wait_time |-> 0]]
    /\ UNCHANGED <<now, file, pc, w, ret, started, signals>>

\* record_profile_started of process p, lines 99-107: the update of the dict
\* it loaded, written back whole. The start counts for the day of line 98.
OtherProfileSave(p) ==
    /\ other[p].pc = "profile_loaded"
    /\ file' = save_state(profile_started_state(other[p].state, other[p].now))
    /\ started' = IF Today(other[p].now) = Today(now) THEN started + 1 ELSE started
    /\ other' = [other EXCEPT ![p] = OtherIdle]
    /\ UNCHANGED <<now, pc, w, ret, signals>>

\* record_rate_limit_error of process p, lines 127-129: the load and the clock
OtherSignalLoad(p, suggested_wait_time) ==
    /\ other[p].pc = "idle"
    /\ signals < MaxSignals
    /\ other' = [other EXCEPT ![p] = [pc |-> "signal_loaded",
                                      state |-> load_state(file).d,
                                      now |-> now,
                                      suggested_wait_time |-> suggested_wait_time]]
    /\ UNCHANGED <<now, file, pc, w, ret, started, signals>>

\* record_rate_limit_error of process p, lines 130-159: the update of the dict
\* it loaded, written back whole. The signal counts for the day of line 129.
OtherSignalSave(p) ==
    /\ other[p].pc = "signal_loaded"
    /\ file' = save_state(rate_limit_state(other[p].state, other[p].now,
                                           other[p].suggested_wait_time))
    /\ signals' = IF Today(other[p].now) = Today(now) THEN signals + 1 ELSE signals
    /\ other' = [other EXCEPT ![p] = OtherIdle]
    /\ UNCHANGED <<now, pc, w, ret, started>>

InitRace ==
    /\ now = StartTime
    /\ file = [kind |-> "missing", data |-> EmptyDict]
    /\ pc = "idle"
    /\ w = Idle
    /\ ret = NoCall
    /\ started = 0
    /\ signals = 0
    /\ other = [p \in Procs |-> OtherIdle]

\* The steps of the two processes interleave in any order.
NextRace ==
    \/ now < DayLen /\ Tick
    \/ \E p \in Procs : OtherWait(p)
    \/ \E p \in Procs : OtherCheckCap(p)
    \/ \E p \in Procs : OtherProfileLoad(p)
    \/ \E p \in Procs : OtherProfileSave(p)
    \/ \E p \in Procs, s \in SuggestedWaits : OtherSignalLoad(p, s)
    \/ \E p \in Procs : OtherSignalSave(p)

SpecRace == InitRace /\ [][NextRace]_vars

-----------------------------------------------------------------------------
(* Properties *)

\* the dict the next call will load
Stored == load_state(file).d

\* today's view of a daily counter of the stored dict
TodayCount(v) == IF Stored.date_today = Today(now) THEN Get(v, 0) ELSE 0

RateLimitStep ==
    ret'.op = "record_rate_limit_error" /\ ret'.status = "ok" /\ file' # file

ProfileStep ==
    ret'.op = "record_profile_started" /\ ret'.status = "ok" /\ file' # file

\* C1: record_rate_limit_error branches on the count after the increment.
\* The first signal of a calendar day leaves degradation_mode = "reduced"
\* and backoff_until = now + suggested_wait_time; every later signal of that
\* day leaves "stopped" and backoff_until = 23:59:59 of the day; each signal
\* adds exactly 1 to rate_limit_count_today and to rate_limit_count.
C1_SignalBranches ==
    [][RateLimitStep =>
        /\ file'.data.rate_limit_count_today = signals + 1
        /\ file'.data.rate_limit_count_today = TodayCount(Stored.rate_limit_count_today) + 1
        /\ file'.data.rate_limit_count = Get(Stored.rate_limit_count, 0) + 1
        /\ file'.data.date_today = Today(now)
        /\ IF signals = 0
           THEN /\ file'.data.degradation_mode = "reduced"
                /\ file'.data.backoff_until = now + ret'.val
           ELSE /\ file'.data.degradation_mode = "stopped"
                /\ file'.data.backoff_until = (Today(now) + 1) * DayLen - 1]_vars

\* a second signal of the day has just been recorded, after a first one
\* whose backoff differs from the end of the day
C1_Witness ==
    /\ ret.op = "record_rate_limit_error"
    /\ signals = 2
    /\ Stored.degradation_mode = "stopped"
    /\ Stored.backoff_until = (Today(now) + 1) * DayLen - 1
    /\ Stored.last_rate_limit_at = now
    /\ ret.val = DayLen

\* C2: the rollover inside a record operation resets all three daily
\* fields, so today's profiles count (get_profiles_scraped_today) is the
\* number of record_profile_started calls made today, also when the first
\* operation of the day is a record_rate_limit_error.
C2_ProfilesCountTodaysStarts ==
    profiles_scraped_today(Stored, now) = started

\* C3: for every stored record whose date_today is not the current date the
\* getters answer as for a fresh account: mode normal, the full cap
\* remaining, cap not exceeded, metrics all zero and normal; and a getter
\* leaves the record as it is, so reading again gives the same.
C3_StaleRecordReadsFresh ==
    /\ [](Stored.date_today # Today(now) =>
            /\ degradation_mode(Stored, now) = "normal"
            /\ daily_cap_remaining(Stored, now) = MAX_PROFILES_PER_DAY
            /\ exceed_daily_cap(Stored, now) = FALSE
            /\ rate_limit_metrics(Stored, now) =
                 [profiles_today |-> 0, rate_limit_count_today |-> 0,
                  degradation_mode |-> "normal"])
    /\ [][(ret'.op \in Getters /\ ret' # ret) => file' = file]_vars

\* yesterday's record, with profiles counted and mode stopped, read today
C3_Witness ==
    /\ ret.op = "get_rate_limit_metrics"
    /\ ret.val.profiles_today = 0
    /\ ret.val.degradation_mode = "normal"
    /\ Stored.date_today = Today(now) - 1
    /\ Stored.profiles_today > 0
    /\ Stored.degradation_mode = "stopped"

\* C4: within one day, with one caller, would_exceed_daily_cap is true
\* exactly when the profiles started today are at least the cap,
\* get_daily_cap_remaining is max(0, cap - started), and each
\* record_profile_started lowers it by exactly 1 until it is 0, where it
\* stays.
C4_CapCountsStarts ==
    /\ [](/\ exceed_daily_cap(Stored, now) = (started >= MAX_PROFILES_PER_DAY)
          /\ daily_cap_remaining(Stored, now) =
                 (IF started <= MAX_PROFILES_PER_DAY
                  THEN MAX_PROFILES_PER_DAY - started ELSE 0)
          /\ Get(Stored.profiles_today, 0) = started)
    /\ [][ProfileStep =>
            daily_cap_remaining(Stored, now)' =
                (IF daily_cap_remaining(Stored, now) > 0
                 THEN daily_cap_remaining(Stored, now) - 1 ELSE 0)]_vars

\* one start past the cap has been recorded and the remaining cap read
C4_Witness ==
    /\ started = MAX_PROFILES_PER_DAY + 1
    /\ ret.op = "get_daily_cap_remaining"
    /\ ret.val = 0

WaitDone == ret.op = "wait_if_needed_before_profile" /\ ret.status = "ok"

\* C5: with one caller, at the instant wait_if_needed_before_profile returns
\* the time is at or past backoff_until and last_profile_at is unset or at
\* least min_delay_sec back; so a record_profile_started that follows the
\* wait is at least min_delay_sec after the previous one.
C5_WaitReturnsClear ==
    /\ [](WaitDone =>
            /\ Stored.backoff_until <= ret.val.at
            /\ ~in_backoff(Stored, ret.val.at)
            /\ \/ Stored.last_profile_at = None
               \/ ret.val.at - Stored.last_profile_at >= ret.val.min_delay_sec)
    /\ [][(WaitDone /\ ProfileStep /\ Stored.last_profile_at # None) =>
            file'.data.last_profile_at - Stored.last_profile_at
                >= ret.val.min_delay_sec]_vars

\* a wait returned exactly min_delay_sec after the last profile, and later
\* than the backoff it also had to sit out
C5_Witness ==
    /\ WaitDone
    /\ Stored.last_profile_at # None
    /\ ret.val.min_delay_sec = MaxDelay
    /\ ret.val.at = Stored.last_profile_at + MaxDelay
    /\ Stored.backoff_until > Stored.last_profile_at
    /\ now = ret.val.at

\* C6: with one caller, backoff_until is never replaced by a smaller value
\* while it still lies in the future.
C6_BackoffNeverShortened ==
    [][(Stored.backoff_until # None /\ Stored.backoff_until > now
            /\ Stored'.backoff_until # Stored.backoff_until)
        => Stored'.backoff_until >= Stored.backoff_until]_vars

\* a call of wait_if_needed_before_profile that took no backoff sleep
WaitBeganClear ==
    /\ pc = "idle"
    /\ \/ pc' = "throttle"
       \/ ret' # ret /\ ret'.op = "wait_if_needed_before_profile"

\* C7: at every time t, is_in_backoff is true iff get_backoff_remaining_sec
\* is positive iff backoff_until is set and t < backoff_until (so both say
\* "no backoff" from t = backoff_until on), and
\* wait_if_needed_before_profile takes its backoff sleep in exactly the
\* states where is_in_backoff is true.
C7_BackoffReadsAgree ==
    /\ [](/\ in_backoff(Stored, now) = (backoff_remaining_sec(Stored, now) > 0)
          /\ in_backoff(Stored, now) =
                 (Stored.backoff_until # None /\ now < Stored.backoff_until)
          /\ backoff_remaining_sec(Stored, now) =
                 (IF Stored.backoff_until # None /\ now < Stored.backoff_until
                  THEN Stored.backoff_until - now ELSE 0))
    /\ [][/\ (pc = "idle" /\ pc' = "backoff") => in_backoff(Stored, now)
          /\ WaitBeganClear => ~in_backoff(Stored, now)]_vars

\* a wait began at the very instant backoff_until and took no backoff sleep
C7_Witness ==
    /\ pc = "throttle"
    /\ w.now = Stored.backoff_until
    /\ now = w.now

RecordOps == {"record_profile_started", "record_rate_limit_error"}

\* what every getter returns to a caller passing session_path
Observed(session_path) ==
    [op \in Getters |-> getter_value(op, Stored, now)]

\* C8: the state is kept per account key: record operations made with the
\* key of session "a" leave every value read with the default key unchanged.
C8_OtherKeyUntouched ==
    [][(ret'.op \in RecordOps /\ ret'.key = account_key("a") /\ now' = now)
        => Observed("None")' = Observed("None")]_vars

\* C9: record_profile_started on a record of today sets last_profile_at to
\* now, adds exactly 1 to profiles_today and leaves backoff_until,
\* degradation_mode, rate_limit_count_today, rate_limit_count and
\* last_rate_limit_at as they are, whether or not the caller waited, is in
\* backoff or is in stopped mode.
C9_ProfileStartFrame ==
    [][(ProfileStep /\ Stored.date_today = Today(now)) =>
        /\ file'.data.last_profile_at = now
        /\ file'.data.profiles_today = Get(Stored.profiles_today, 0) + 1
        /\ file'.data.date_today = Stored.date_today
        /\ file'.data.backoff_until = Stored.backoff_until
        /\ file'.data.degradation_mode = Stored.degradation_mode
        /\ file'.data.rate_limit_count_today = Stored.rate_limit_count_today
        /\ file'.data.rate_limit_count = Stored.rate_limit_count
        /\ file'.data.last_rate_limit_at = Stored.last_rate_limit_at]_vars

\* a profile start recorded without a wait, in backoff and in stopped mode
C9_Witness ==
    /\ ret.op = "record_profile_started"
    /\ Stored.last_profile_at = now
    /\ Stored.last_rate_limit_at = now
    /\ Stored.degradation_mode = "stopped"
    /\ Stored.rate_limit_count_today = 2
    /\ in_backoff(Stored, now)
    /\ Stored.profiles_today = 2

\* C10: whatever the state file holds (nothing, text that does not parse,
\* JSON that is not an object), no operation ends in an error.
C10_NoOperationRaises ==
    ret.status = "ok"

\* C11: when the write of the state file fails, record_profile_started and
\* record_rate_limit_error return without raising and the record the next
\* call loads is the one stored before.
C11_FailedWriteKeepsRecord ==
    /\ [](ret.op \in RecordOps => ret.status # "raised")
    /\ [][(ret'.status = "unsaved") => Stored' = Stored]_vars

\* C12: wait_if_needed_before_profile and the getters never write the state
\* file, also when they see a date_today that is not today and when the
\* wait is cancelled in a sleep.
C12_ReadsNeverWrite ==
    [][(\/ ret'.op \in Getters
        \/ ret'.op = "wait_if_needed_before_profile"
        \/ pc # "idle"
        \/ pc' # "idle") => file' = file]_vars

\* a wait was cancelled in its sleep over yesterday's record
C12_Witness ==
    /\ ret.op = "wait_if_needed_before_profile"
    /\ ret.status = "cancelled"
    /\ Stored.date_today = Today(now) - 1
    /\ Stored.profiles_today > 0

\* the sleeps of one call, in the order the code can take them
SleepRank(p) ==
    CASE p = "idle"          -> 0
      [] p = "backoff"       -> 1
      [] p = "backoff_again" -> 2
      [] p = "throttle"      -> 3

\* C13: wait_if_needed_before_profile never raises and, whatever other
\* processes write meanwhile, goes through at most two backoff sleeps and one
\* throttle sleep, each of them finite, and then returns, as time advances.
C13_WaitReturns ==
    /\ [](ret.op = "wait_if_needed_before_profile" => ret.status = "ok")
    /\ [][(pc' # "idle" /\ (pc' # pc \/ w' # w)) => SleepRank(pc) < SleepRank(pc')]_vars
    /\ (pc # "idle") ~> (pc = "idle")

\* the call is in its throttle sleep, on a record reloaded after a signal
\* that another process recorded while the call slept
C13_Witness ==
    /\ pc = "throttle"
    /\ w.state.last_rate_limit_at > w.now
    /\ w.wake > now

\* C15: a caller resuming from its first backoff sleep reloads the record
\* and, if another process has moved backoff_until into the future, sleeps
\* until that newer instant and does not go on before it; resuming from
\* this second sleep it does not look again, so it sleeps for backoff at
\* most twice.
C15_DoubleCheck ==
    [][/\ (pc = "backoff" /\ pc' # "backoff") =>
            IF Stored.backoff_until # None /\ now < Stored.backoff_until
            THEN pc' = "backoff_again" /\ w'.wake = Stored.backoff_until
            ELSE pc' \in {"throttle", "idle"}
       /\ (pc = "backoff_again" /\ pc' # "backoff_again") =>
            /\ now >= w.state.backoff_until
            /\ pc' \in {"throttle", "idle"}
       /\ (pc = "backoff_again" /\ pc' = "backoff_again") => w' = w]_vars

\* the caller is in its second backoff sleep and another process has moved
\* backoff_until once more
C15_Witness ==
    /\ pc = "backoff_again"
    /\ w.wake > now
    /\ Stored.backoff_until > w.wake

\* C14: the day rollover never touches backoff_until: a
\* record_profile_started that rolls the day over stores the backoff_until
\* it found, and on a record of an earlier day is_in_backoff and
\* get_backoff_remaining_sec still answer from the stored backoff_until; so
\* a backoff that reaches past midnight is in force on the next day while
\* the mode reads normal.
C14_RolloverKeepsBackoff ==
    /\ [][(ProfileStep /\ Stored.date_today # Today(now)) =>
            /\ file'.data.backoff_until = Stored.backoff_until
            /\ in_backoff(Stored, now)' = in_backoff(Stored, now)
            /\ backoff_remaining_sec(Stored, now)' = backoff_remaining_sec(Stored, now)
            /\ file'.data.degradation_mode = "normal"]_vars
    /\ [](Stored.date_today # Today(now) =>
            /\ in_backoff(Stored, now) =
                 (Stored.backoff_until # None /\ now < Stored.backoff_until)
            /\ backoff_remaining_sec(Stored, now) =
                 (IF Stored.backoff_until # None /\ now < Stored.backoff_until
                  THEN Stored.backoff_until - now ELSE 0)
            /\ degradation_mode(Stored, now) = "normal")

\* a profile start has rolled the day over while yesterday's backoff is
\* still in force
C14_Witness ==
    /\ ret.op = "record_profile_started"
    /\ Stored.date_today = Today(now)
    /\ Stored.last_profile_at = now
    /\ Stored.profiles_today = 1
    /\ Today(Stored.last_rate_limit_at) = Today(now) - 1
    /\ Stored.degradation_mode = "normal"
    /\ in_backoff(Stored, now)

\* C18: the throttle sleep is taken only when, at the time of the check
\* (after any backoff sleep), less than min_delay_sec has passed since
\* last_profile_at, and it lasts exactly the rest of min_delay_sec, which is
\* positive and at most min_delay_sec; so with one caller the wait ends at
\* max(start, backoff_until, last_profile_at + min_delay_sec).
C18_ThrottleSleepsRemainder ==
    [][(pc' = "throttle" /\ pc # "throttle") =>
        /\ Stored.last_profile_at # None
        /\ now - Stored.last_profile_at < w'.min_delay_sec
        /\ w'.wake - now = w'.min_delay_sec - (now - Stored.last_profile_at)
        /\ w'.wake - now > 0
        /\ w'.wake - now <= w'.min_delay_sec]_vars

\* C20: with one caller, whenever get_degradation_mode returns "stopped"
\* the stored backoff_until is 23:59:59 of the stored date_today, so
\* is_in_backoff is true at every earlier time of that day.
C20_StoppedMeansBackoffToMidnight ==
    degradation_mode(Stored, now) = "stopped" =>
        /\ Stored.backoff_until = (Stored.date_today + 1) * DayLen - 1
        /\ now < (Stored.date_today + 1) * DayLen - 1 => in_backoff(Stored, now)

\* stopped mode read before the last instant of the day, after a profile
\* start recorded in stopped mode
C20_Witness ==
    /\ ret.op = "get_degradation_mode"
    /\ ret.val = "stopped"
    /\ now < (Today(now) + 1) * DayLen - 1
    /\ Stored.last_profile_at > Stored.last_rate_limit_at
    /\ in_backoff(Stored, now)

\* the stored record as today's readers see it
ModeToday == degradation_mode(Stored, now)
CountToday == TodayCount(Stored.rate_limit_count_today)

\* process p completes record_profile_started in this step
ProfileSaveStep(p) == other[p].pc = "profile_loaded" /\ other'[p].pc = "idle"

\* process p completes a record operation in this step, having loaded the
\* record that is still the stored one, on the same day
UnracedSaveStep(p) ==
    /\ other[p].pc \in {"profile_loaded", "signal_loaded"}
    /\ other'[p].pc = "idle"
    /\ other[p].state = Stored
    /\ Today(other[p].now) = Today(now)

ModeRank(m) == CASE m = "normal" -> 0 [] m = "reduced" -> 1 [] m = "stopped" -> 2

\* C16: with two processes following the protocol wait, would_exceed_daily_cap,
\* record_profile_started, whatever the interleaving of their loads and
\* writes, the profiles started on a day never exceed the cap by more than
\* one, and today's profiles_today is at most one below the number of
\* profiles started today.
C16_LostUpdateBoundedByOne ==
    /\ started <= MAX_PROFILES_PER_DAY + 1
    /\ started - TodayCount(Stored.profiles_today) <= 1

\* C17: a backoff written by record_rate_limit_error survives the write of
\* a record_profile_started that loaded the record earlier: when a process
\* completes record_profile_started while the stored record is in backoff,
\* the record is still in backoff afterwards, with the same mode.
C17_BackoffSurvivesStaleWrite ==
    [][\A p \in Procs :
          (ProfileSaveStep(p) /\ in_backoff(Stored, now)) =>
              /\ in_backoff(Stored', now')
              /\ degradation_mode(Stored', now') = ModeToday]_vars

\* C19: in every state two interleaving processes reach from a fresh account,
\* today's view of degradation_mode is normal iff today's view of
\* rate_limit_count_today is 0, reduced iff it is 1, stopped iff it is 2 or
\* more; and a record operation that ran without another write in between
\* never moves the mode backwards within a day.
C19_ModeFollowsCount ==
    /\ [](/\ ModeToday = "normal" <=> CountToday = 0
          /\ ModeToday = "reduced" <=> CountToday = 1
          /\ ModeToday = "stopped" <=> CountToday >= 2
          /\ rate_limit_metrics(Stored, now).degradation_mode = ModeToday
          /\ rate_limit_metrics(Stored, now).rate_limit_count_today = CountToday)
    /\ [][\A p \in Procs :
             (UnracedSaveStep(p) /\ Today(now') = Today(now)) =>
                 ModeRank(degradation_mode(Stored', now')) >= ModeRank(ModeToday)]_vars

\* a stale write has moved the stored record from stopped back to reduced:
\* one signal counted today although two were recorded
C19_Witness ==
    /\ signals = 2
    /\ ModeToday = "reduced"
    /\ CountToday = 1
    /\ \A p \in Procs : other[p].pc = "idle"

====
